---- MODULE Spec2Model ----
(***************************************************************************)
(* Model of the smart-home control core of projeto-final.py:               *)
(* Notificacao (observer list and fan-out), the ModoOperacao strategies,   *)
(* the Ligar/Desligar commands and the CentralController singleton with    *)
(* its registry, undo history and current mode.                            *)
(*                                                                         *)
(* The source spells some names in two ways (Dispositovo / Dispositivo,    *)
(* Notificacao / Notificador, registra / registrar, DispositvosFactory /   *)
(* DispositivosFactory); the model reads each pair as one name.            *)
(* datetime.now() in the event texts is left out of the event strings.     *)
(***************************************************************************)
EXTENDS Integers, Sequences, FiniteSets, TLC

VARIABLES
    instancia,      \* CentralController._instancia: "None" or "ctl"
    initialized,    \* hasattr(self, "_initialized")
    dispositivos,   \* self._dispositivos
    historico,      \* self._historico
    modo,           \* self._modo
    notificador,    \* self._notificador (a notifier object)
    ligado,         \* the private on/off flag of every concrete device
    observadores,   \* Notificacao._observadores of every notifier object
    entregas,       \* atualizar() calls made during the last call, in order
    erro,           \* outcome of the last call: "ok" or the exception raised
    ultima_op,      \* the last call made and what it was given
    pendentes,      \* commands executed and not yet undone (history ledger)
    objetos,        \* attributes of each CentralController object allocated
    t_pc,           \* where each thread stands in the call it is making
    t_local,        \* the local variables of each thread's call
    t_inicio,       \* the state in which the threads were started
    medidor         \* calls made and atualizar() calls app received, when counted

vars == <<instancia, initialized, dispositivos, historico, modo, notificador,
          ligado, observadores, entregas, erro, ultima_op, pendentes,
          objetos, t_pc, t_local, t_inicio, medidor>>

----------------------------------------------------------------------------
(* Bounds *)

MaxDispositivos == 2
MaxHistorico == 2
MaxObservadores == 1
MaxObsNotif == 3
MaxRegistro == 2
MaxChamadas == 4

----------------------------------------------------------------------------
(* Devices *)

\* The device objects of a run.  "monitorada" is the decorator built around
\* "hue"; "instavel" is an externally supplied Camera variant whose
\* ligar/desligar may raise.
Dispositivos == {"luz", "camera", "sensor", "hue", "monitorada", "instavel"}

\* The objects that hold an on/off flag of their own.
Concretos == {"luz", "camera", "sensor", "hue", "instavel"}

\* d.__class__.__name__
Classe(d) ==
    CASE d = "luz" -> "Luz"
      [] d = "camera" -> "Camera"
      [] d = "sensor" -> "SensorMovimento"
      [] d = "hue" -> "PhilipsHueAdapter"
      [] d = "monitorada" -> "MonitoramentoRemotoDecorator"
      [] d = "instavel" -> "CameraInstavel"

\* isinstance(d, c): the class itself or a subclass of it.
IsInstance(d, c) ==
    \/ Classe(d) = c
    \/ Classe(d) = "CameraInstavel" /\ c = "Camera"

\* DispositivoDecorator._dispositivo
Interno(d) == IF d = "monitorada" THEN "hue" ELSE d

\* MonitoramentoRemotoDecorator._notificador
NotificadorDe(d) == "n1"

\* status() of each device class, given the on/off flags.
RECURSIVE Status(_, _)
Status(d, lig) ==
    CASE IsInstance(d, "Luz") ->
            IF lig[d] THEN "Luz: Ligada" ELSE "Luz: Desligada"
      [] IsInstance(d, "Camera") ->
            IF lig[d] THEN "Câmera: Gravando" ELSE "Câmera:Desligada"
      [] IsInstance(d, "SensorMovimento") ->
            IF lig[d] THEN "Sensor: Ativo" ELSE "Sensor: Desligado"
      [] IsInstance(d, "PhilipsHueAdapter") ->
            IF lig[d] THEN "Luz Hue: Ligada" ELSE "Luz Hue: Desligada"
      [] OTHER -> Status(Interno(d), lig)

----------------------------------------------------------------------------
(* Notificacao and its observers *)

Notificadores == {"n1", "n2", "padrao"}

\* "app" is an AppUsuario; "auto" removes itself from the notifier inside
\* its atualizar; "registrador" registers "app" inside its atualizar.
Observadores == {"app", "auto", "registrador"}

\* list.remove(x): drops the first occurrence.
RemovePrimeiro(s, o) ==
    LET i == CHOOSE k \in 1..Len(s) :
                 s[k] = o /\ \A j \in 1..(k - 1) : s[j] # o
    IN SubSeq(s, 1, i - 1) \o SubSeq(s, i + 1, Len(s))

\* A world is the part of the state that device, observer and notifier
\* calls read and write: w.ligado, w.observadores, w.entregas, w.erro.
Mundo == [ligado |-> ligado, observadores |-> observadores,
          entregas |-> <<>>, erro |-> "ok"]

\* Notificacao.registra(obs)
Registra(w, n, o) ==
    [w EXCEPT !.observadores[n] = Append(@, o)]

\* Notificacao.remover(obs): list.remove raises ValueError when obs is absent.
Remover(w, n, o) ==
    IF \E k \in 1..Len(w.observadores[n]) : w.observadores[n][k] = o
    THEN [w EXCEPT !.observadores[n] = RemovePrimeiro(@, o)]
    ELSE [w EXCEPT !.erro = "ValueError"]

\* Observador.atualizar(evento) of observer o, called by notifier n.
Atualizar(w, n, o, evento) ==
    LET w1 == [w EXCEPT !.entregas = Append(@, <<o, evento>>)]
    IN CASE o = "auto" -> Remover(w1, n, o)
         [] o = "registrador" -> Registra(w1, n, "app")
         [] OTHER -> w1

\* Notificacao.notificar(evento): iterates over list(self._observadores).
RECURSIVE NotificarLaco(_, _, _, _, _)
NotificarLaco(w, n, copia, i, evento) ==
    IF i > Len(copia) \/ w.erro # "ok"
    THEN w
    ELSE NotificarLaco(Atualizar(w, n, copia[i], evento), n, copia, i + 1, evento)

\* Notificar iterating over self._observadores itself, without the copy.
RECURSIVE LacoSemCopia(_, _, _, _)
LacoSemCopia(w, n, i, evento) ==
    IF i > Len(w.observadores[n]) \/ w.erro # "ok"
    THEN w
    ELSE LacoSemCopia(Atualizar(w, n, w.observadores[n][i], evento), n, i + 1, evento)

NotificarSemCopia(w, n, evento) == LacoSemCopia(w, n, 1, evento)

Notificar(w, n, evento) ==
    NotificarLaco(w, n, w.observadores[n], 1, evento)

----------------------------------------------------------------------------
(* Device actuation *)

\* d.ligar() / d.desligar(); falha says whether an unstable device raises
\* on this call.
RECURSIVE Acionar(_, _, _, _)
Acionar(w, d, valor, falha) ==
    IF Classe(d) = "MonitoramentoRemotoDecorator"
    THEN LET w1 == Acionar(w, Interno(d), valor, falha)
         IN IF w1.erro # "ok"
            THEN w1
            ELSE Notificar(w1, NotificadorDe(d),
                     Classe(Interno(d)) \o
                     (IF valor THEN " ligado remotamente"
                               ELSE " desligado remotamente"))
    ELSE IF Classe(d) = "CameraInstavel" /\ falha
         THEN [w EXCEPT !.erro = "Exception"]
         ELSE [w EXCEPT !.ligado[d] = valor]

Ligar(w, d, falha) == Acionar(w, d, TRUE, falha)
Desligar(w, d, falha) == Acionar(w, d, FALSE, falha)

----------------------------------------------------------------------------
(* Commands *)

ClassesComando == {"LigarCommand", "DesligarCommand"}

\* LigarCommand.executar / DesligarCommand.executar
Executar(w, c, falha) ==
    IF c.classe = "LigarCommand"
    THEN Ligar(w, c.disp, falha)
    ELSE Desligar(w, c.disp, falha)

\* LigarCommand.desfazer / DesligarCommand.desfazer
Desfazer(w, c, falha) ==
    IF c.classe = "LigarCommand"
    THEN Desligar(w, c.disp, falha)
    ELSE Ligar(w, c.disp, falha)

----------------------------------------------------------------------------
(* Operation modes *)

Modos == {"ModoEconomia", "ModoConforto", "ModoSeguranca"}

\* AplicarUm with ModoSeguranca switching off whatever is neither a sensor
\* nor a camera ("else" in place of "elif isinstance(d, Luz)").
AplicarUmSemTesteDeLuz(m, w, d, falha) ==
    CASE m = "ModoEconomia" ->
            [Desligar(w, d, falha) EXCEPT !.erro = "ok"]
      [] m = "ModoConforto" ->
            [Ligar(w, d, falha) EXCEPT !.erro = "ok"]
      [] m = "ModoSeguranca" ->
            IF IsInstance(d, "SensorMovimento") \/ IsInstance(d, "Camera")
            THEN Ligar(w, d, falha)
            ELSE Desligar(w, d, falha)

\* The body of the loop of aplicar, for each mode: ModoEconomia and
\* ModoConforto swallow the exception of the device, ModoSeguranca does not.
AplicarUm(m, w, d, falha) ==
    CASE m = "ModoEconomia" ->
            [Desligar(w, d, falha) EXCEPT !.erro = "ok"]
      [] m = "ModoConforto" ->
            [Ligar(w, d, falha) EXCEPT !.erro = "ok"]
      [] m = "ModoSeguranca" ->
            IF IsInstance(d, "SensorMovimento") \/ IsInstance(d, "Camera")
            THEN Ligar(w, d, falha)
            ELSE IF IsInstance(d, "Luz")
                 THEN Desligar(w, d, falha)
                 ELSE w

\* ModoOperacao.aplicar(dispositivos); F is the set of positions of the list
\* at which the device raises when actuated.
RECURSIVE AplicarLaco(_, _, _, _, _)
AplicarLaco(m, w, disps, i, F) ==
    IF i > Len(disps) \/ w.erro # "ok"
    THEN w
    ELSE AplicarLaco(m, AplicarUm(m, w, disps[i], i \in F), disps, i + 1, F)

Aplicar(m, w, disps, F) == AplicarLaco(m, w, disps, 1, F)

\* The positions of a device list that hold a device that may raise.
Instaveis(disps) == {i \in 1..Len(disps) : Classe(Interno(disps[i])) = "CameraInstavel"}

----------------------------------------------------------------------------
(* CentralController *)

NenhumCmd == [classe |-> "None", disp |-> "None"]

Comandos(ds) == [classe : ClassesComando, disp : ds]

\* The record kept of a call: its name, the command it handled, its
\* argument ("falha" when the device of the command raises during the call)
\* and the status of the command's device when the call began.
Chamada(op, cmd, arg, antes) ==
    [op |-> op, cmd |-> cmd, arg |-> arg, antes |-> antes]

\* The count of calls and of deliveries to app is kept only in the runs
\* that switch it on.
SemMedidor == [ligado |-> FALSE, chamadas |-> 0, eventos |-> 0]

\* The count after a call that made the deliveries ent.
Mede(md, ent) ==
    IF md.ligado
    THEN [md EXCEPT !.chamadas = @ + 1,
                    !.eventos = @ + Cardinality({k \in 1..Len(ent) : ent[k][1] = "app"})]
    ELSE md

\* Writes a world back into the state.
Grava(w) ==
    /\ ligado' = w.ligado
    /\ observadores' = w.observadores
    /\ entregas' = w.entregas
    /\ erro' = w.erro
    /\ medidor' = Mede(medidor, w.entregas)

\* Construir with an __init__ that lacks the hasattr guard.
ConstruirSemGuarda(n) ==
    /\ instancia' = "ctl"
    /\ dispositivos' = <<>>
    /\ historico' = <<>>
    /\ modo' = "None"
    /\ notificador' = (IF n = "None" THEN "padrao" ELSE n)
    /\ initialized' = TRUE
    /\ Grava(Mundo)
    /\ ultima_op' = Chamada("construir", NenhumCmd, n, "")
    /\ UNCHANGED <<pendentes, objetos, t_pc, t_local, t_inicio>>

\* CentralController(notifier): __new__ followed by __init__.
Construir(n) ==
    /\ instancia' = "ctl"
    /\ IF ~initialized
       THEN /\ dispositivos' = <<>>
            /\ historico' = <<>>
            /\ modo' = "None"
            /\ notificador' = (IF n = "None" THEN "padrao" ELSE n)
            /\ initialized' = TRUE
       ELSE UNCHANGED <<dispositivos, historico, modo, notificador, initialized>>
    /\ Grava(Mundo)
    /\ ultima_op' = Chamada("construir", NenhumCmd, n, "")
    /\ UNCHANGED <<pendentes, objetos, t_pc, t_local, t_inicio>>

\* AdicionarDispositivo with a registry that keeps one entry per device.
AdicionarSemRepetir(d) ==
    /\ initialized
    /\ dispositivos' = (IF \E i \in 1..Len(dispositivos) : dispositivos[i] = d
                        THEN dispositivos
                        ELSE Append(dispositivos, d))
    /\ Grava(Notificar(Mundo, notificador,
                       "Dispositivo adicionado: " \o Classe(d)))
    /\ ultima_op' = Chamada("adicionar_dispositivo", NenhumCmd, d, "")
    /\ UNCHANGED <<instancia, initialized, historico, modo, notificador, pendentes,
                   objetos, t_pc, t_local, t_inicio>>

\* AdicionarDispositivo applying the current mode to the device it adds.
AdicionarAplicaModo(d) ==
    /\ initialized
    /\ dispositivos' = Append(dispositivos, d)
    /\ LET w1 == IF modo # "None" THEN AplicarUm(modo, Mundo, d, FALSE) ELSE Mundo
       IN Grava(Notificar(w1, notificador,
                          "Dispositivo adicionado: " \o Classe(d)))
    /\ ultima_op' = Chamada("adicionar_dispositivo", NenhumCmd, d, "")
    /\ UNCHANGED <<instancia, initialized, historico, modo, notificador, pendentes,
                   objetos, t_pc, t_local, t_inicio>>

\* CentralController.adicionar_dispositivo
AdicionarDispositivo(d) ==
    /\ initialized
    /\ dispositivos' = Append(dispositivos, d)
    /\ Grava(Notificar(Mundo, notificador,
                       "Dispositivo adicionado: " \o Classe(d)))
    /\ ultima_op' = Chamada("adicionar_dispositivo", NenhumCmd, d, "")
    /\ UNCHANGED <<instancia, initialized, historico, modo, notificador, pendentes,
                   objetos, t_pc, t_local, t_inicio>>

\* ExecutarComando with the append placed before cmd.executar().
ExecutarComandoEmpilhaAntes(c, falha) ==
    /\ initialized
    /\ historico' = Append(historico, c)
    /\ pendentes' = Append(pendentes, c)
    /\ LET w1 == Executar(Mundo, c, falha)
       IN IF w1.erro # "ok"
          THEN Grava(w1)
          ELSE Grava(Notificar(w1, notificador,
                               "Comando executado: " \o c.classe))
    /\ ultima_op' = Chamada("executar_comando", c, IF falha THEN "falha" ELSE "",
                             Status(c.disp, ligado))
    /\ UNCHANGED <<instancia, initialized, dispositivos, modo, notificador,
                   objetos, t_pc, t_local, t_inicio>>

\* CentralController.executar_comando
ExecutarComando(c, falha) ==
    /\ initialized
    /\ LET w1 == Executar(Mundo, c, falha)
       IN IF w1.erro # "ok"
          THEN /\ Grava(w1)
               /\ UNCHANGED <<historico, pendentes>>
          ELSE /\ historico' = Append(historico, c)
               /\ pendentes' = Append(pendentes, c)
               /\ Grava(Notificar(w1, notificador,
                                  "Comando executado: " \o c.classe))
    /\ ultima_op' = Chamada("executar_comando", c, IF falha THEN "falha" ELSE "",
                             Status(c.disp, ligado))
    /\ UNCHANGED <<instancia, initialized, dispositivos, modo, notificador,
                   objetos, t_pc, t_local, t_inicio>>

\* Pop as list.pop(0) would leave the list.
PopPrimeiro(s) == SubSeq(s, 2, Len(s))

\* list.pop(): removes and returns the last entry.
Pop(s) == SubSeq(s, 1, Len(s) - 1)

\* RetornoVazio when the history is popped before it is tested.
RetornoComPop ==
    /\ Grava([Mundo EXCEPT !.erro = "IndexError"])
    /\ ultima_op' = Chamada("desfazer_ultimo", NenhumCmd, "", "")
    /\ UNCHANGED <<historico, pendentes>>

\* RetornoVazio announcing that there was nothing to undo.
RetornoVazioAvisa ==
    /\ Grava(Notificar(Mundo, notificador, "Comando desfeito:' None'"))
    /\ ultima_op' = Chamada("desfazer_ultimo", NenhumCmd, "", "")
    /\ UNCHANGED <<historico, pendentes>>

\* The early return of desfazer_ultimo: "if not self._historico: return".
RetornoVazio ==
    /\ Grava(Mundo)
    /\ ultima_op' = Chamada("desfazer_ultimo", NenhumCmd, "", "")
    /\ UNCHANGED <<historico, pendentes>>

\* DesfazerUltimo reading the last entry and popping it only after
\* cmd.desfazer() has returned.
DesfazerUltimoPopDepois(falha) ==
    /\ initialized
    /\ IF historico = <<>>
       THEN RetornoVazio
       ELSE LET cmd == historico[Len(historico)]
                w1 == Desfazer(Mundo, cmd, falha)
            IN /\ ultima_op' = Chamada("desfazer_ultimo", cmd,
                                        IF falha THEN "falha" ELSE "", "")
               /\ IF w1.erro # "ok"
                  THEN /\ Grava(w1)
                       /\ UNCHANGED <<historico, pendentes>>
                  ELSE /\ historico' = Pop(historico)
                       /\ pendentes' = Pop(pendentes)
                       /\ Grava(Notificar(w1, notificador,
                                          "Comando desfeito:' " \o cmd.classe \o "'"))
    /\ UNCHANGED <<instancia, initialized, dispositivos, modo, notificador,
                   objetos, t_pc, t_local, t_inicio>>

\* CentralController.desfazer_ultimo
DesfazerUltimo(falha) ==
    /\ initialized
    /\ IF historico = <<>>
       THEN RetornoVazio
       ELSE LET cmd == historico[Len(historico)]
                w1 == Desfazer(Mundo, cmd, falha)
            IN /\ historico' = Pop(historico)
               /\ pendentes' = (IF \E k \in 1..Len(pendentes) : pendentes[k] = cmd
                                THEN LET k == CHOOSE k \in 1..Len(pendentes) :
                                                  /\ pendentes[k] = cmd
                                                  /\ \A j \in (k + 1)..Len(pendentes) : pendentes[j] # cmd
                                     IN SubSeq(pendentes, 1, k - 1) \o SubSeq(pendentes, k + 1, Len(pendentes))
                                ELSE pendentes)
               /\ ultima_op' = Chamada("desfazer_ultimo", cmd,
                                        IF falha THEN "falha" ELSE "", "")
               /\ IF w1.erro # "ok"
                  THEN Grava(w1)
                  ELSE Grava(Notificar(w1, notificador,
                                       "Comando desfeito:' " \o cmd.classe \o "'"))
    /\ UNCHANGED <<instancia, initialized, dispositivos, modo, notificador,
                   objetos, t_pc, t_local, t_inicio>>

\* SetModo with the notification outside "if modo:".
SetModoAvisaSempre(m, F) ==
    /\ initialized
    /\ modo' = m
    /\ LET w1 == IF m # "None" THEN Aplicar(m, Mundo, dispositivos, F) ELSE Mundo
       IN IF w1.erro # "ok"
          THEN Grava(w1)
          ELSE Grava(Notificar(w1, notificador, "Modo definido: " \o m))
    /\ ultima_op' = Chamada("set_modo", NenhumCmd, m, "")
    /\ UNCHANGED <<instancia, initialized, dispositivos, historico, notificador,
                   pendentes, objetos, t_pc, t_local, t_inicio>>

\* CentralController.set_modo
SetModo(m, F) ==
    /\ initialized
    /\ modo' = m
    /\ IF m # "None"
       THEN LET w1 == Aplicar(m, Mundo, dispositivos, F)
            IN IF w1.erro # "ok"
               THEN Grava(w1)
               ELSE Grava(Notificar(w1, notificador, "Modo definido: " \o m))
       ELSE Grava(Mundo)
    /\ ultima_op' = Chamada("set_modo", NenhumCmd, m, "")
    /\ UNCHANGED <<instancia, initialized, dispositivos, historico, notificador,
                   pendentes, objetos, t_pc, t_local, t_inicio>>

\* notificador.registra(o), called by the application.
Registrar(n, o) ==
    /\ Grava(Registra(Mundo, n, o))
    /\ ultima_op' = Chamada("registra", NenhumCmd, o, "")
    /\ UNCHANGED <<instancia, initialized, dispositivos, historico, modo,
                   notificador, pendentes, objetos, t_pc, t_local, t_inicio>>

\* notificador.remover(o), called by the application.
RemoverObservador(n, o) ==
    /\ Grava(Remover(Mundo, n, o))
    /\ ultima_op' = Chamada("remover", NenhumCmd, o, "")
    /\ UNCHANGED <<instancia, initialized, dispositivos, historico, modo,
                   notificador, pendentes, objetos, t_pc, t_local, t_inicio>>

\* notificador.notificar(evento), called directly.
NotificarEvento(n, evento) ==
    /\ Grava(Notificar(Mundo, n, evento))
    /\ ultima_op' = Chamada("notificar", NenhumCmd, evento, "")
    /\ UNCHANGED <<instancia, initialized, dispositivos, historico, modo,
                   notificador, pendentes, objetos, t_pc, t_local, t_inicio>>

----------------------------------------------------------------------------------------------------------------------------------------
(* The controller used from one thread *)

Threads == {1, 2}

\* No thread besides the main one: every call below runs to completion.
SemThreads ==
    /\ objetos = <<>>
    /\ t_pc = [t \in Threads |-> "fim"]
    /\ t_local = [t \in Threads |-> "None"]
    /\ t_inicio = <<>>

\* The state of the process before any CentralController is constructed.
SemInstancia ==
    /\ instancia = "None"
    /\ initialized = FALSE
    /\ dispositivos = <<>>
    /\ historico = <<>>
    /\ modo = "None"
    /\ notificador = "None"
    /\ ligado = [d \in Concretos |-> FALSE]
    /\ observadores = [n \in Notificadores |-> <<>>]
    /\ entregas = <<>>
    /\ erro = "ok"
    /\ ultima_op = Chamada("nenhuma", NenhumCmd, "", "")
    /\ pendentes = <<>>
    /\ medidor = SemMedidor

InitClasse == SemInstancia /\ SemThreads

\* The state after notificador.registrar(app) and
\* controle = CentralController(notifier=notificador).
Init ==
    /\ instancia = "ctl"
    /\ initialized = TRUE
    /\ dispositivos = <<>>
    /\ historico = <<>>
    /\ modo = "None"
    /\ notificador = "n1"
    /\ ligado = [d \in Concretos |-> FALSE]
    /\ observadores = [n \in Notificadores |-> IF n = "n1" THEN <<"app">> ELSE <<>>]
    /\ entregas = <<>>
    /\ erro = "ok"
    /\ ultima_op = Chamada("construir", NenhumCmd, "n1", "")
    /\ pendentes = <<>>
    /\ medidor = SemMedidor
    /\ SemThreads

DispositivosCtl == {"luz", "instavel"}

PassoConstruir == \E n \in {"None", "n1", "n2"} : Construir(n)

PassoAdicionar(ds) ==
    /\ Len(dispositivos) < MaxDispositivos
    /\ \E d \in ds : AdicionarDispositivo(d)

PassoExecutar(ds) ==
    /\ Len(historico) < MaxHistorico
    /\ \E c \in Comandos(ds) :
         \E falha \in (IF Classe(c.disp) = "CameraInstavel" THEN BOOLEAN ELSE {FALSE}) :
            ExecutarComando(c, falha)

PassoDesfazer ==
    \E falha \in (IF historico # <<>> /\ Classe(historico[Len(historico)].disp) = "CameraInstavel"
                  THEN BOOLEAN ELSE {FALSE}) :
        DesfazerUltimo(falha)

PassoSetModo(ms) ==
    \E m \in ms :
        \E F \in SUBSET Instaveis(dispositivos) : SetModo(m, F)

PassoRegistrar(os) ==
    /\ Len(observadores["n1"]) < MaxObservadores
    /\ \E o \in os : Registrar("n1", o)

Next ==
    \/ PassoAdicionar(DispositivosCtl)
    \/ PassoExecutar(DispositivosCtl)
    \/ PassoDesfazer
    \/ PassoSetModo(Modos \cup {"None"})

Spec == Init /\ [][Next]_vars

----------------------------------------------------------------------------
(* Repeated construction of the singleton, from one thread *)

NextSingleton ==
    \/ PassoConstruir
    \/ PassoAdicionar({"luz"})
    \/ PassoExecutar({"luz"})
    \/ PassoSetModo({"ModoConforto"})
    \/ PassoRegistrar({"app"})

SpecSingleton == InitClasse /\ [][NextSingleton]_vars

----------------------------------------------------------------------------
(* Properties of the command history *)

\* C1: executar_comando(c) followed immediately by desfazer_ultimo() leaves
\* the device bound to c with the status it had just before
\* executar_comando(c), for both command classes and both initial states.
C1_IdaEVolta ==
    [][(/\ ultima_op.op = "executar_comando"
        /\ erro = "ok"
        /\ ultima_op'.op = "desfazer_ultimo"
        /\ erro' = "ok")
       => Status(ultima_op.cmd.disp, ligado') = ultima_op.antes]_vars

\* A step of desfazer_ultimo on a non-empty history undoes and removes the
\* last entry; a step that lengthens the history is an executar_comando that
\* appends its command.
UltimoAEntrarPrimeiroASair ==
    /\ ultima_op'.op = "desfazer_ultimo" /\ historico # <<>>
         => /\ ultima_op'.cmd = historico[Len(historico)]
            /\ historico' = SubSeq(historico, 1, Len(historico) - 1)
    /\ Len(historico') > Len(historico)
         => /\ ultima_op'.op = "executar_comando"
            /\ historico' = Append(historico, ultima_op'.cmd)

\* C2: the history is, in execution order, the commands that
\* executar_comando has executed and desfazer_ultimo has not yet undone;
\* desfazer_ultimo on a non-empty history undoes and removes its last entry,
\* and only executar_comando ever adds an entry (nothing popped comes back).
C2_Historico ==
    /\ [](historico = pendentes)
    /\ [][UltimoAEntrarPrimeiroASair]_vars

\* C2 witness: an undo has left one older command on the history.
C2_Witness ==
    /\ ultima_op.op = "desfazer_ultimo"
    /\ ultima_op.cmd # NenhumCmd
    /\ Len(historico) = 1
    /\ historico[1] # ultima_op.cmd

\* C9: desfazer_ultimo() on an empty history does not raise, changes neither
\* the registry, any device, the mode, the history nor any observer list, and
\* delivers no event.
C9_DesfazerVazio ==
    [][(ultima_op'.op = "desfazer_ultimo" /\ historico = <<>>)
       => /\ erro' = "ok"
          /\ entregas' = <<>>
          /\ historico' = <<>>
          /\ UNCHANGED <<dispositivos, ligado, modo, observadores, notificador>>]_vars

\* C9 witness: an undo on an empty history, with a device registered and
\* switched on, a mode set and an observer listening.
C9_Witness ==
    /\ ultima_op.op = "desfazer_ultimo"
    /\ ultima_op.cmd = NenhumCmd
    /\ dispositivos # <<>>
    /\ ligado["luz"]
    /\ modo # "None"
    /\ observadores["n1"] # <<>>

----------------------------------------------------------------------------
(* Properties of the singleton *)

\* C6: every construction after the first returns the instance that already
\* exists and runs no initialization: the registry, the history, the mode and
\* the notifier given to the first construction stay as they are, whatever
\* notifier the later construction passes; the first construction installs
\* the notifier it is given (a default one when given none).
C6_Singleton ==
    [][ultima_op'.op = "construir"
       => IF instancia # "None"
          THEN /\ instancia' = instancia
               /\ UNCHANGED <<dispositivos, historico, modo, notificador,
                              ligado, observadores>>
          ELSE /\ instancia' # "None"
               /\ notificador' = (IF ultima_op'.arg = "None" THEN "padrao"
                                  ELSE ultima_op'.arg)]_vars

\* C6 witness: a construction passing n2 has returned while the controller,
\* first built with n1, holds a device, a command and a mode.
C6_Witness ==
    /\ ultima_op.op = "construir"
    /\ ultima_op.arg = "n2"
    /\ notificador = "n1"
    /\ dispositivos # <<>>
    /\ historico # <<>>
    /\ modo # "None"

----------------------------------------------------------------------------
(* The operation modes over the device classes of the repository *)

DispositivosModo == {"luz", "camera", "sensor", "hue", "monitorada"}

\* The finite sequences over S of length at most n.
SeqAte(S, n) == UNION {[1..k -> S] : k \in 0..n}

\* A controller that holds any registry of devices in any on/off state.
InitModo ==
    /\ instancia = "ctl"
    /\ initialized = TRUE
    /\ dispositivos \in SeqAte(DispositivosModo, MaxRegistro)
    /\ historico = <<>>
    /\ modo = "None"
    /\ notificador = "n1"
    /\ ligado \in {l \in [Concretos -> BOOLEAN] : ~l["instavel"]}
    /\ observadores = [n \in Notificadores |-> IF n = "n1" THEN <<"app">> ELSE <<>>]
    /\ entregas = <<>>
    /\ erro = "ok"
    /\ ultima_op = Chamada("construir", NenhumCmd, "n1", "")
    /\ pendentes = <<>>
    /\ medidor = SemMedidor
    /\ SemThreads

NextModo == PassoSetModo(Modos \cup {"None"})

SpecModo == InitModo /\ [][NextModo]_vars

\* What a mode prescribes for device d: its status after the mode is applied.
StatusPrescrito(m, d, lig) ==
    CASE m = "ModoEconomia" -> Status(d, [lig EXCEPT ![Interno(d)] = FALSE])
      [] m = "ModoConforto" -> Status(d, [lig EXCEPT ![Interno(d)] = TRUE])
      [] m = "ModoSeguranca" ->
            IF Classe(d) \in {"Camera", "SensorMovimento"}
            THEN Status(d, [lig EXCEPT ![d] = TRUE])
            ELSE IF Classe(d) = "Luz"
                 THEN Status(d, [lig EXCEPT ![d] = FALSE])
                 ELSE Status(d, lig)

\* C3: aplicar never raises, whatever the mode: set_modo(m) returns normally,
\* and every device of the registry that does not fail ends as m prescribes.
C3_AplicarNuncaLevanta ==
    [][(ultima_op'.op = "set_modo" /\ ultima_op'.arg # "None")
       => /\ erro' = "ok"
          /\ \A i \in 1..Len(dispositivos) :
               Classe(dispositivos[i]) # "CameraInstavel"
               => Status(dispositivos[i], ligado')
                    = StatusPrescrito(ultima_op'.arg, dispositivos[i], ligado)]_vars

----------------------------------------------------------------------------
(* The notifier on its own *)

\* Event texts the program passes to notificar.
Eventos == {"Modo definido: ModoConforto", "PhilipsHueAdapter ligado remotamente"}

PassoRegistrarNotif ==
    /\ Len(observadores["n1"]) < MaxObsNotif
    /\ \E o \in Observadores : Registrar("n1", o)

PassoRemover == \E o \in Observadores : RemoverObservador("n1", o)

PassoNotificar ==
    /\ \E e \in Eventos : NotificarEvento("n1", e)
    /\ Len(observadores'["n1"]) <= MaxObsNotif

NextNotif ==
    \/ PassoRegistrarNotif
    \/ PassoRemover
    \/ PassoNotificar

SpecNotif == InitClasse /\ [][NextNotif]_vars

\* o occurs in the sequence s.
Ocorre(s, o) == \E k \in 1..Len(s) : s[k] = o

\* t is s without its first occurrence of o.
SemOPrimeiro(s, t, o) ==
    \E k \in 1..Len(s) :
        /\ s[k] = o
        /\ \A j \in 1..(k - 1) : s[j] # o
        /\ Len(t) = Len(s) - 1
        /\ \A j \in 1..Len(t) : t[j] = (IF j < k THEN s[j] ELSE s[j + 1])

\* C4: remover(obs) raises nothing; it leaves the observer sequence as it is
\* when obs is not registered and removes the first occurrence of obs, and
\* only that one, when it is.
C4_RemoverSilencioso ==
    [][ultima_op'.op = "remover"
       => /\ erro' = "ok"
          /\ IF Ocorre(observadores["n1"], ultima_op'.arg)
             THEN SemOPrimeiro(observadores["n1"], observadores'["n1"], ultima_op'.arg)
             ELSE observadores' = observadores]_vars

\* C5: notificar(evento) calls atualizar(evento) once for each entry the
\* observer sequence had when notificar was called, in the order of that
\* sequence, whatever the observers register or remove while they are
\* notified.
C5_EntregaPelaCopia ==
    [][ultima_op'.op = "notificar"
       => /\ erro' = "ok"
          /\ entregas' = [i \in 1..Len(observadores["n1"]) |->
                             <<observadores["n1"][i], ultima_op'.arg>>]]_vars

\* C5 witness: a notificar call has reached an observer registered twice that
\* removes itself at each delivery, and then the observer registered after it.
C5_Witness ==
    /\ ultima_op.op = "notificar"
    /\ Len(entregas) = 3
    /\ entregas[1][1] = "auto"
    /\ entregas[2][1] = "auto"
    /\ entregas[3][1] = "app"
    /\ observadores["n1"] = <<"app">>

----------------------------------------------------------------------------
(* Two threads constructing the controller for the first time *)

Objetos == {"obj1", "obj2"}

\* An object not yet allocated, none of its attributes set.
SemAtributos ==
    [criado |-> FALSE, dispositivos |-> <<>>, historico |-> <<>>,
     notificador |-> "None", initialized |-> FALSE]

\* The notifier each thread passes, and the device it registers afterwards.
ArgDe(t) == IF t = 1 THEN "n1" ELSE "n2"
DispositivoDe(t) == IF t = 1 THEN "luz" ELSE "camera"

InitCorrida ==
    /\ SemInstancia
    /\ objetos = [o \in Objetos |-> SemAtributos]
    /\ t_pc = [t \in Threads |-> "new_test"]
    /\ t_local = [t \in Threads |-> "None"]
    /\ t_inicio = <<>>

Sequenciais == <<initialized, dispositivos, historico, modo, notificador, ligado,
                 observadores, entregas, erro, ultima_op, pendentes, medidor>>

Vai(t, rotulo) == t_pc' = [t_pc EXCEPT ![t] = rotulo]

\* __new__: "if cls._instancia is None"
NewTest(t) ==
    /\ t_pc[t] = "new_test"
    /\ Vai(t, IF instancia = "None" THEN "new_cria" ELSE "new_ret")
    /\ UNCHANGED <<instancia, objetos, t_local, t_inicio, Sequenciais>>

\* __new__: "cls._instancia = super().__new__(cls)"
NewCria(t) ==
    /\ t_pc[t] = "new_cria"
    /\ LET o == IF objetos["obj1"].criado THEN "obj2" ELSE "obj1"
       IN /\ objetos' = [objetos EXCEPT ![o].criado = TRUE]
          /\ instancia' = o
    /\ Vai(t, "new_ret")
    /\ UNCHANGED <<t_local, t_inicio, Sequenciais>>

\* __new__: "return cls._instancia"
NewRet(t) ==
    /\ t_pc[t] = "new_ret"
    /\ t_local' = [t_local EXCEPT ![t] = instancia]
    /\ Vai(t, "init_test")
    /\ UNCHANGED <<instancia, objetos, t_inicio, Sequenciais>>

\* __init__: "if not hasattr(self, '_initialized')"
InitTest(t) ==
    /\ t_pc[t] = "init_test"
    /\ Vai(t, IF objetos[t_local[t]].initialized THEN "usa" ELSE "init_disp")
    /\ UNCHANGED <<instancia, objetos, t_local, t_inicio, Sequenciais>>

\* __init__: "self._dispositivos = []"
InitDisp(t) ==
    /\ t_pc[t] = "init_disp"
    /\ objetos' = [objetos EXCEPT ![t_local[t]].dispositivos = <<>>]
    /\ Vai(t, "init_hist")
    /\ UNCHANGED <<instancia, t_local, t_inicio, Sequenciais>>

\* __init__: "self._historico = []" and "self._modo = None"
InitHist(t) ==
    /\ t_pc[t] = "init_hist"
    /\ objetos' = [objetos EXCEPT ![t_local[t]].historico = <<>>]
    /\ Vai(t, "init_notif")
    /\ UNCHANGED <<instancia, t_local, t_inicio, Sequenciais>>

\* __init__: "self._notificador = notifier or Notificador()"
InitNotif(t) ==
    /\ t_pc[t] = "init_notif"
    /\ objetos' = [objetos EXCEPT ![t_local[t]].notificador = ArgDe(t)]
    /\ Vai(t, "init_flag")
    /\ UNCHANGED <<instancia, t_local, t_inicio, Sequenciais>>

\* __init__: "self._initialized = True"
InitFlag(t) ==
    /\ t_pc[t] = "init_flag"
    /\ objetos' = [objetos EXCEPT ![t_local[t]].initialized = TRUE]
    /\ Vai(t, "usa")
    /\ UNCHANGED <<instancia, t_local, t_inicio, Sequenciais>>

\* The thread uses the controller it was given: adicionar_dispositivo.
Usa(t) ==
    /\ t_pc[t] = "usa"
    /\ objetos' = [objetos EXCEPT ![t_local[t]].dispositivos = Append(@, DispositivoDe(t))]
    /\ Vai(t, "fim")
    /\ UNCHANGED <<instancia, t_local, t_inicio, Sequenciais>>

NextCorrida ==
    \E t \in Threads :
        \/ NewTest(t)
        \/ NewCria(t)
        \/ NewRet(t)
        \/ InitTest(t)
        \/ InitDisp(t)
        \/ InitHist(t)
        \/ InitNotif(t)
        \/ InitFlag(t)
        \/ Usa(t)

SpecCorrida == InitCorrida /\ [][NextCorrida]_vars

\* At most one object was allocated and no two threads hold different ones.
UmaSoInstancia ==
    /\ Cardinality({o \in Objetos : objetos[o].criado}) <= 1
    /\ \A t, u \in Threads :
         t_local[t] # "None" /\ t_local[u] # "None" => t_local[t] = t_local[u]

\* No step drops a recorded device or replaces a notifier already installed.
SemReinicio ==
    \A o \in Objetos :
        /\ Len(objetos'[o].dispositivos) >= Len(objetos[o].dispositivos)
        /\ objetos[o].notificador # "None"
             => objetos'[o].notificador = objetos[o].notificador

\* C7: when two threads construct the controller concurrently for the first
\* time, one instance is created, both threads get it, and its attributes
\* are initialized once: no recorded device or installed notifier is
\* overwritten by a second initialization.
C7_UmaConstrucao ==
    /\ []UmaSoInstancia
    /\ [][SemReinicio]_vars

----------------------------------------------------------------------------
(* Two threads calling the operations of one controller *)

\* The calls a thread may make.
Chamadas ==
    {[op |-> "executar_comando", cmd |-> c, arg |-> ""] : c \in Comandos({"luz"})}
    \cup {[op |-> "desfazer_ultimo", cmd |-> NenhumCmd, arg |-> ""],
          [op |-> "adicionar_dispositivo", cmd |-> NenhumCmd, arg |-> "camera"],
          [op |-> "set_modo", cmd |-> NenhumCmd, arg |-> "ModoEconomia"]}

\* The first statement of each operation.
Entrada(ch) ==
    CASE ch.op = "executar_comando" -> "executa"
      [] ch.op = "desfazer_ultimo" -> "testa"
      [] ch.op = "adicionar_dispositivo" -> "anexa"
      [] ch.op = "set_modo" -> "atribui"

\* The frame of a call that has not started: its statement, the command it
\* holds in cmd and the position of the loop of aplicar.
LocalDe(ch) == [chamada |-> ch, pc |-> Entrada(ch), cmd |-> ch.cmd, i |-> 1]

\* The controller's attributes and the devices, as one value.
Ctl ==
    [dispositivos |-> dispositivos, historico |-> historico, modo |-> modo,
     ligado |-> ligado, erro |-> erro]

MundoDe(k) ==
    [ligado |-> k.ligado, observadores |-> observadores,
     entregas |-> <<>>, erro |-> "ok"]

\* One statement of the call with frame l, on the controller k.
PassoDe(k, l) ==
    CASE l.pc = "executa" ->   \* cmd.executar()
            [k |-> [k EXCEPT !.ligado = Executar(MundoDe(k), l.cmd, FALSE).ligado],
             l |-> [l EXCEPT !.pc = "empilha"]]
      [] l.pc = "empilha" ->   \* self._historico.append(cmd)
            [k |-> [k EXCEPT !.historico = Append(@, l.cmd)],
             l |-> [l EXCEPT !.pc = "notifica"]]
      [] l.pc = "testa" ->     \* if not self._historico: return
            [k |-> k,
             l |-> [l EXCEPT !.pc = IF k.historico = <<>> THEN "fim" ELSE "desempilha"]]
      [] l.pc = "desempilha" ->   \* cmd = self._historico.pop()
            IF k.historico = <<>>
            THEN [k |-> [k EXCEPT !.erro = "IndexError"],
                  l |-> [l EXCEPT !.pc = "fim"]]
            ELSE [k |-> [k EXCEPT !.historico = Pop(@)],
                  l |-> [l EXCEPT !.pc = "desfaz",
                                  !.cmd = k.historico[Len(k.historico)]]]
      [] l.pc = "desfaz" ->    \* cmd.desfazer()
            [k |-> [k EXCEPT !.ligado = Desfazer(MundoDe(k), l.cmd, FALSE).ligado],
             l |-> [l EXCEPT !.pc = "notifica"]]
      [] l.pc = "anexa" ->     \* self._dispositivos.append(dispositivo)
            [k |-> [k EXCEPT !.dispositivos = Append(@, l.chamada.arg)],
             l |-> [l EXCEPT !.pc = "notifica"]]
      [] l.pc = "atribui" ->   \* self._modo = modo
            [k |-> [k EXCEPT !.modo = l.chamada.arg],
             l |-> [l EXCEPT !.pc = "aplica", !.i = 1]]
      [] l.pc = "aplica" ->    \* one turn of "for d in dispositivos"
            IF l.i > Len(k.dispositivos)
            THEN [k |-> k, l |-> [l EXCEPT !.pc = "notifica"]]
            ELSE [k |-> [k EXCEPT !.ligado =
                            AplicarUm(l.chamada.arg, MundoDe(k),
                                      k.dispositivos[l.i], FALSE).ligado],
                  l |-> [l EXCEPT !.i = @ + 1]]
      [] l.pc = "notifica" ->  \* self._notificador.notificar(...), nobody listening
            [k |-> k, l |-> [l EXCEPT !.pc = "fim"]]

\* The call with frame l run alone to its end on the controller k.
RECURSIVE Completa(_, _)
Completa(k, l) ==
    IF l.pc = "fim" THEN k
    ELSE Completa(PassoDe(k, l).k, PassoDe(k, l).l)

InitConc ==
    /\ instancia = "ctl"
    /\ initialized = TRUE
    /\ dispositivos = <<"luz">>
    /\ historico \in SeqAte(Comandos({"luz"}), 1)
    /\ modo = "None"
    /\ notificador = "n1"
    /\ ligado \in {l \in [Concretos -> BOOLEAN] : \A d \in Concretos \ {"luz"} : ~l[d]}
    /\ observadores = [n \in Notificadores |-> <<>>]
    /\ entregas = <<>>
    /\ erro = "ok"
    /\ ultima_op = Chamada("construir", NenhumCmd, "n1", "")
    /\ pendentes = <<>>
    /\ objetos = <<>>
    /\ t_local \in [Threads -> {LocalDe(ch) : ch \in Chamadas}]
    /\ t_pc = [t \in Threads |-> t_local[t].pc]
    /\ t_inicio = Ctl
    /\ medidor = SemMedidor

\* Thread t runs the next statement of its call.
Avanca(t) ==
    /\ t_pc[t] # "fim"
    /\ LET r == PassoDe(Ctl, t_local[t])
       IN /\ dispositivos' = r.k.dispositivos
          /\ historico' = r.k.historico
          /\ modo' = r.k.modo
          /\ ligado' = r.k.ligado
          /\ erro' = r.k.erro
          /\ t_local' = [t_local EXCEPT ![t] = r.l]
          /\ t_pc' = [t_pc EXCEPT ![t] = r.l.pc]
    /\ UNCHANGED <<instancia, initialized, notificador, observadores, entregas,
                   ultima_op, pendentes, objetos, t_inicio, medidor>>

ThreadExecutar(t) == t_local[t].chamada.op = "executar_comando" /\ Avanca(t)
ThreadDesfazer(t) == t_local[t].chamada.op = "desfazer_ultimo" /\ Avanca(t)
ThreadAdicionar(t) == t_local[t].chamada.op = "adicionar_dispositivo" /\ Avanca(t)
ThreadSetModo(t) == t_local[t].chamada.op = "set_modo" /\ Avanca(t)

NextConc ==
    \E t \in Threads :
        \/ ThreadExecutar(t)
        \/ ThreadDesfazer(t)
        \/ ThreadAdicionar(t)
        \/ ThreadSetModo(t)

SpecConc == InitConc /\ [][NextConc]_vars

\* The outcome of the call ch1 run to its end and then ch2, from k.
EmSerie(k, ch1, ch2) == Completa(Completa(k, LocalDe(ch1)), LocalDe(ch2))

\* C8: when both threads have returned, the registry, the history, the mode
\* and the device states are those that one of the two serial orders of the
\* two calls produces.
C8_Serializavel ==
    (\A t \in Threads : t_pc[t] = "fim")
    => \/ Ctl = EmSerie(t_inicio, t_local[1].chamada, t_local[2].chamada)
       \/ Ctl = EmSerie(t_inicio, t_local[2].chamada, t_local[1].chamada)

----------------------------------------------------------------------------
(* Properties of the device registry *)

\* C11: the registry is the sequence of the devices added, in call order:
\* every adicionar_dispositivo(d) appends exactly d at the end, a device
\* already registered included, and no other operation of the controller
\* changes the registry.
C11_RegistroEmOrdem ==
    [][IF ultima_op'.op = "adicionar_dispositivo"
       THEN dispositivos' = Append(dispositivos, ultima_op'.arg)
       ELSE dispositivos' = dispositivos]_vars

\* C11 witness: the same device has been added a second time, after a
\* command was executed and a mode was set.
C11_Witness ==
    /\ ultima_op.op = "adicionar_dispositivo"
    /\ dispositivos = <<"luz", "luz">>
    /\ historico # <<>>
    /\ modo # "None"

----------------------------------------------------------------------------
(* Properties of set_modo(None), of the failures and of the frames *)

\* C14: set_modo(None) leaves the controller with no current mode, changes
\* the state of no device and delivers no event to any observer, whatever
\* the mode and the registry were before.
C14_SetModoNone ==
    [][(ultima_op'.op = "set_modo" /\ ultima_op'.arg = "None")
       => /\ modo' = "None"
          /\ ligado' = ligado
          /\ entregas' = <<>>
          /\ erro' = "ok"]_vars

\* C14 witness: set_modo(None) has returned with a device registered and
\* still switched on, and an observer listening.
C14_Witness ==
    /\ ultima_op.op = "set_modo"
    /\ ultima_op.arg = "None"
    /\ modo = "None"
    /\ dispositivos # <<>>
    /\ ligado["luz"]
    /\ observadores["n1"] # <<>>

\* C16: when c.executar() raises inside executar_comando(c), the exception
\* reaches the caller, the history is what it was before the call and no
\* event is delivered.
C16_ExecutarFalha ==
    [][(ultima_op'.op = "executar_comando" /\ ultima_op'.arg = "falha")
       => /\ erro' = "Exception"
          /\ historico' = historico
          /\ entregas' = <<>>]_vars

\* C16 witness: an executar_comando whose device raised has returned to its
\* caller with an older command on the history and an observer listening.
C16_Witness ==
    /\ ultima_op.op = "executar_comando"
    /\ ultima_op.arg = "falha"
    /\ erro = "Exception"
    /\ historico # <<>>
    /\ observadores["n1"] # <<>>

\* C17: when cmd.desfazer() raises inside desfazer_ultimo(), the exception
\* reaches the caller and no event is delivered, yet the history has lost
\* its last entry while no device changed state; afterwards an entry enters
\* the history only through a new executar_comando.
C17_DesfazerFalha ==
    [][/\ (ultima_op'.op = "desfazer_ultimo" /\ ultima_op'.arg = "falha")
          => /\ erro' = "Exception"
             /\ entregas' = <<>>
             /\ ultima_op'.cmd = historico[Len(historico)]
             /\ historico' = SubSeq(historico, 1, Len(historico) - 1)
             /\ ligado' = ligado
       /\ Len(historico') > Len(historico)
          => ultima_op'.op = "executar_comando"]_vars

\* C17 witness: the undo of a LigarCommand has raised: the device is still
\* on and the history, which held that command alone, is empty.
C17_Witness ==
    /\ ultima_op.op = "desfazer_ultimo"
    /\ ultima_op.arg = "falha"
    /\ ultima_op.cmd = [classe |-> "LigarCommand", disp |-> "instavel"]
    /\ erro = "Exception"
    /\ ligado["instavel"]
    /\ historico = <<>>

\* C18: adicionar_dispositivo changes no device state, nor the history, nor
\* the mode; executar_comando and desfazer_ultimo change neither the
\* registry nor the mode, and no device but the one bound to their command;
\* set_modo changes neither the registry nor the history.
C18_Molduras ==
    [][/\ ultima_op'.op = "adicionar_dispositivo"
          => UNCHANGED <<ligado, historico, modo>>
       /\ ultima_op'.op \in {"executar_comando", "desfazer_ultimo"}
          => /\ UNCHANGED <<dispositivos, modo>>
             /\ \A d \in Concretos :
                   (ultima_op'.cmd = NenhumCmd \/ d # Interno(ultima_op'.cmd.disp))
                      => ligado'[d] = ligado[d]
       /\ ultima_op'.op = "set_modo"
          => UNCHANGED <<dispositivos, historico>>]_vars

\* C18 witness: a device has been added while ModoConforto is the current
\* mode and is still off; a command executed earlier is on the history.
C18_Witness ==
    /\ ultima_op.op = "adicionar_dispositivo"
    /\ ultima_op.arg = "luz"
    /\ dispositivos = <<"instavel", "luz">>
    /\ modo = "ModoConforto"
    /\ ~ligado["luz"]
    /\ historico # <<>>

----------------------------------------------------------------------------
(* set_modo with a mode, over the device classes of the repository *)

\* The deliveries of a call that carry the given event.
EntregasDe(ent, evento) == {k \in 1..Len(ent) : ent[k][2] = evento}

\* The entries of a registry that hold a decorated device.
Decorados(disps) == {i \in 1..Len(disps) : Interno(disps[i]) # disps[i]}

\* C15: set_modo(m) with a mode m makes m the current mode, whatever the
\* mode was, applies m to every entry of the registry once and only then
\* delivers one "Modo definido" event, the last delivery of the call (a
\* decorated entry announces its own actuation once, before it); over a
\* registry with no device that may fail, every registered device is off
\* after ModoEconomia and on after ModoConforto.
C15_SetModo ==
    [][(ultima_op'.op = "set_modo" /\ ultima_op'.arg # "None")
       => LET m == ultima_op'.arg
              evento == "Modo definido: " \o m
          IN /\ modo' = m
             /\ (m = "ModoEconomia" /\ Instaveis(dispositivos) = {})
                  => \A i \in 1..Len(dispositivos) : ~ligado'[Interno(dispositivos[i])]
             /\ (m = "ModoConforto" /\ Instaveis(dispositivos) = {})
                  => \A i \in 1..Len(dispositivos) : ligado'[Interno(dispositivos[i])]
             /\ EntregasDe(entregas', evento) = {Len(entregas')}
             /\ entregas' # <<>> => entregas'[Len(entregas')] = <<"app", evento>>
             /\ Len(entregas')
                  = 1 + (IF m = "ModoSeguranca" THEN 0
                         ELSE Cardinality(Decorados(dispositivos)))]_vars

----------------------------------------------------------------------------
(* The events an observer receives, counted over a run of calls *)

\* Devices of the plain classes.
DispositivosSimples == {"luz", "camera", "sensor"}

\* The state after notificador.registrar(app) and
\* controle = CentralController(notifier=notificador), with the calls and
\* the deliveries to app counted from here on.
InitContagem ==
    /\ instancia = "ctl"
    /\ initialized = TRUE
    /\ dispositivos = <<>>
    /\ historico = <<>>
    /\ modo = "None"
    /\ notificador = "n1"
    /\ ligado = [d \in Concretos |-> FALSE]
    /\ observadores = [n \in Notificadores |-> IF n = "n1" THEN <<"app">> ELSE <<>>]
    /\ entregas = <<>>
    /\ erro = "ok"
    /\ ultima_op = Chamada("construir", NenhumCmd, "n1", "")
    /\ pendentes = <<>>
    /\ medidor = [ligado |-> TRUE, chamadas |-> 0, eventos |-> 0]
    /\ SemThreads

NextContagem ==
    \/ medidor.chamadas < MaxChamadas /\ PassoAdicionar(DispositivosSimples)
    \/ medidor.chamadas < MaxChamadas /\ PassoExecutar(DispositivosSimples)
    \/ medidor.chamadas < MaxChamadas /\ PassoDesfazer
    \/ medidor.chamadas < MaxChamadas /\ PassoSetModo(Modos \cup {"None"})

SpecContagem == InitContagem /\ [][NextContagem]_vars

\* The end of the run add L1, TurnOn(L1), TurnOff(L1), undo_last: four calls
\* made, L1 alone in the registry, TurnOff undone and TurnOn on the history.
FimDoCenario ==
    /\ medidor.chamadas = 4
    /\ dispositivos = <<"luz">>
    /\ ultima_op.op = "desfazer_ultimo"
    /\ ultima_op.cmd = [classe |-> "DesligarCommand", disp |-> "luz"]
    /\ historico = <<[classe |-> "LigarCommand", disp |-> "luz"]>>

\* What app, registered once, receives during one call on plain devices.
UmEventoPorChamada ==
    LET recebidos == medidor'.eventos - medidor.eventos
    IN /\ ultima_op'.op = "adicionar_dispositivo"
            => /\ recebidos = 1
               /\ entregas' = <<<<"app", "Dispositivo adicionado: "
                                            \o Classe(ultima_op'.arg)>>>>
       /\ ultima_op'.op = "executar_comando"
            => /\ recebidos = 1
               /\ entregas' = <<<<"app", "Comando executado: "
                                            \o ultima_op'.cmd.classe>>>>
       /\ ultima_op'.op = "desfazer_ultimo"
            => IF historico # <<>>
               THEN /\ recebidos = 1
                    /\ entregas' = <<<<"app", "Comando desfeito:' "
                                                 \o ultima_op'.cmd.classe \o "'">>>>
               ELSE /\ recebidos = 0
                    /\ entregas' = <<>>

\* C13: over plain devices an observer registered once before the calls
\* receives one event per adicionar_dispositivo, one per executar_comando,
\* one per desfazer_ultimo on a non-empty history and none per
\* desfazer_ultimo on an empty one; after add L1, TurnOn(L1), TurnOff(L1),
\* undo_last it has received 4 events and L1 is on.
C13_Eventos ==
    /\ [][UmEventoPorChamada]_vars
    /\ [](FimDoCenario => /\ medidor.eventos = 4
                           /\ Status("luz", ligado) = "Luz: Ligada")

\* C13 witness: the run add L1, TurnOn(L1), TurnOff(L1), undo_last has ended
\* with the "Comando desfeito" event delivered to app.
C13_Witness ==
    /\ FimDoCenario
    /\ entregas = <<<<"app", "Comando desfeito:' DesligarCommand'">>>>

----------------------------------------------------------------------------
(* executar_comando statement by statement, observers listening *)

DispositivosPasso == {"luz", "monitorada"}

\* The value a command gives its device: LigarCommand.executar calls
\* ligar(), DesligarCommand.executar calls desligar().
Valor(c) == c.classe = "LigarCommand"

\* The event a MonitoramentoRemotoDecorator sends after ligar()/desligar().
EventoRemoto(d, valor) ==
    Classe(Interno(d)) \o (IF valor THEN " ligado remotamente"
                                    ELSE " desligado remotamente")

\* OrdemDosPassos with the decorator announcing before it actuates.
OrdemAvisaAntes(d) ==
    IF Interno(d) # d
    THEN <<"avisa", "executa", "empilha", "notifica">>
    ELSE <<"executa", "empilha", "notifica">>

\* OrdemDosPassos with the event sent before the command is pushed.
OrdemNotificaAntes(d) ==
    IF Interno(d) # d
    THEN <<"executa", "avisa", "notifica", "empilha">>
    ELSE <<"executa", "notifica", "empilha">>

\* The statements of executar_comando(c), c bound to d, in program order:
\* cmd.executar() (for a decorator super().ligar()/desligar() and then its
\* own notificar), self._historico.append(cmd), self._notificador.notificar.
OrdemDosPassos(d) ==
    IF Interno(d) # d
    THEN <<"executa", "avisa", "empilha", "notifica">>
    ELSE <<"executa", "empilha", "notifica">>

\* The statement at position i of the call, "fim" past the last one.
PassoEm(d, i) ==
    IF i > Len(OrdemDosPassos(d)) THEN "fim" ELSE OrdemDosPassos(d)[i]

\* The observer lists of the runs below.  "app" and "painel" are AppUsuario
\* objects; "desfazedor" is an observer whose atualizar calls
\* controle.desfazer_ultimo() when it is told of a command executed.
ListasDeObservadores ==
    {<<"app">>, <<"app", "painel">>, <<"desfazedor">>, <<"app", "desfazedor">>,
     <<"desfazedor", "app">>, <<"desfazedor", "desfazedor">>}

Reage == \E k \in 1..Len(observadores["n1"]) : observadores["n1"][k] = "desfazedor"

\* A controller in any state on which thread 1 has just called
\* executar_comando(c).
InitPassos ==
    /\ instancia = "ctl"
    /\ initialized = TRUE
    /\ dispositivos = <<"luz", "monitorada">>
    /\ historico \in SeqAte(Comandos(DispositivosPasso), MaxHistorico)
    /\ pendentes = historico
    /\ modo = "None"
    /\ notificador = "n1"
    /\ ligado \in {l \in [Concretos -> BOOLEAN] :
                      \A d \in Concretos \ {"luz", "hue"} : ~l[d]}
    /\ observadores \in {[n \in Notificadores |-> IF n = "n1" THEN os ELSE <<>>] :
                            os \in ListasDeObservadores}
    /\ entregas = <<>>
    /\ erro = "ok"
    /\ \E c \in Comandos(DispositivosPasso) :
          /\ ultima_op = Chamada("executar_comando", c, "", Status(c.disp, ligado))
          /\ t_local = [t \in Threads |->
                           IF t = 1 THEN [cmd |-> c, i |-> 1, historico0 |-> historico,
                                          vistos |-> <<>>]
                           ELSE [cmd |-> NenhumCmd, i |-> 0, historico0 |-> <<>>,
                                 vistos |-> <<>>]]
          /\ t_pc = [t \in Threads |-> IF t = 1 THEN PassoEm(c.disp, 1) ELSE "fim"]
    /\ objetos = <<>>
    /\ t_inicio = <<>>
    /\ medidor = SemMedidor

\* The world of the call in progress: the deliveries made so far are kept.
MundoDaChamada == [Mundo EXCEPT !.entregas = entregas]

\* The call moves to its next statement.
Segue ==
    LET l == t_local[1]
    IN /\ t_local' = [t_local EXCEPT ![1].i = l.i + 1]
       /\ t_pc' = [t_pc EXCEPT ![1] = PassoEm(l.cmd.disp, l.i + 1)]

\* The device itself is switched: for a decorator, super().ligar().
ExecutaPasso ==
    /\ t_pc[1] = "executa"
    /\ LET c == t_local[1].cmd
       IN Grava(Acionar(MundoDaChamada, Interno(c.disp), Valor(c), FALSE))
    /\ Segue
    /\ UNCHANGED <<instancia, initialized, dispositivos, historico, modo, notificador,
                   ultima_op, pendentes, objetos, t_inicio>>

\* The decorator's self._notificador.notificar(...).
AvisaPasso ==
    /\ t_pc[1] = "avisa"
    /\ LET c == t_local[1].cmd
       IN Grava(Notificar(MundoDaChamada, NotificadorDe(c.disp),
                          EventoRemoto(c.disp, Valor(c))))
    /\ Segue
    /\ UNCHANGED <<instancia, initialized, dispositivos, historico, modo, notificador,
                   ultima_op, pendentes, objetos, t_inicio>>

\* self._historico.append(cmd)
EmpilhaPasso ==
    /\ t_pc[1] = "empilha"
    /\ historico' = Append(historico, t_local[1].cmd)
    /\ pendentes' = Append(pendentes, t_local[1].cmd)
    /\ Grava(MundoDaChamada)
    /\ Segue
    /\ UNCHANGED <<instancia, initialized, dispositivos, modo, notificador,
                   ultima_op, objetos, t_inicio>>

\* The world of the fan-out: the history is within reach of the observers,
\* and what each observer finds when it is told is noted in w.vistos.
MundoDoControlador ==
    [ligado |-> ligado, observadores |-> observadores, entregas |-> entregas,
     erro |-> "ok", historico |-> historico, vistos |-> <<>>]

\* controle.desfazer_ultimo() called by an observer from inside atualizar.
DesfazerUltimoEm(w) ==
    IF w.historico = <<>>
    THEN w
    ELSE LET cmd == w.historico[Len(w.historico)]
             w1 == [w EXCEPT !.historico = Pop(@)]
         IN Notificar(Desfazer(w1, cmd, FALSE), notificador,
                      "Comando desfeito:' " \o cmd.classe \o "'")

\* atualizar("Comando executado: ...") of observer o during executar_comando(c):
\* o finds the device of c in its new state or not (novo) and c on top of
\* the history or not (topo); desfazedor then calls desfazer_ultimo(), which
\* undoes the command it finds on top (desfez).
AtualizarExecutado(w, o, evento, c) ==
    LET visto == [obs |-> o,
                  novo |-> w.ligado[Interno(c.disp)] = Valor(c),
                  topo |-> w.historico # <<>> /\ w.historico[Len(w.historico)] = c,
                  desfez |-> IF o = "desfazedor" /\ w.historico # <<>>
                             THEN w.historico[Len(w.historico)] ELSE NenhumCmd]
        w1 == [Atualizar(w, notificador, o, evento) EXCEPT !.vistos = Append(@, visto)]
    IN IF o = "desfazedor" THEN DesfazerUltimoEm(w1) ELSE w1

\* Notificacao.notificar over the copy of the list, observers reacting.
RECURSIVE NotificarExecutado(_, _, _, _, _)
NotificarExecutado(w, copia, i, evento, c) ==
    IF i > Len(copia)
    THEN w
    ELSE NotificarExecutado(AtualizarExecutado(w, copia[i], evento, c),
                            copia, i + 1, evento, c)

\* self._notificador.notificar("Comando executado: ..."); the desfazer_ultimo()
\* of a desfazedor runs inside this statement.
NotificaPasso ==
    /\ t_pc[1] = "notifica"
    /\ LET l == t_local[1]
           w == NotificarExecutado(MundoDoControlador, observadores[notificador], 1,
                                   "Comando executado: " \o l.cmd.classe, l.cmd)
       IN /\ historico' = w.historico
          /\ pendentes' = w.historico
          /\ Grava(w)
          /\ t_local' = [t_local EXCEPT ![1].i = l.i + 1, ![1].vistos = w.vistos]
          /\ t_pc' = [t_pc EXCEPT ![1] = PassoEm(l.cmd.disp, l.i + 1)]
    /\ UNCHANGED <<instancia, initialized, dispositivos, modo, notificador,
                   ultima_op, objetos, t_inicio>>

NextPassos ==
    \/ ExecutaPasso
    \/ AvisaPasso
    \/ EmpilhaPasso
    \/ NotificaPasso

SpecPassos == InitPassos /\ [][NextPassos]_vars

\* The command of the call in progress and the flag of the device it acts on.
CmdDaChamada == t_local[1].cmd
NoNovoEstado == ligado[Interno(CmdDaChamada.disp)] = Valor(CmdDaChamada)

\* The events delivered to observer o, in the order it received them.
RecebidosPor(o) ==
    LET Rec[k \in 0..Len(entregas)] ==
          IF k = 0 THEN <<>>
          ELSE IF entregas[k][1] = o THEN Append(Rec[k - 1], entregas[k][2])
               ELSE Rec[k - 1]
    IN Rec[Len(entregas)]

\* One delivery of the event to each observer of the list, in its order.
ACadaUm(os, evento) == [k \in 1..Len(os) |-> <<os[k], evento>>]

\* While executar_comando(c) runs: when c is about to be pushed its device
\* is in its new state, and when the event is about to be delivered c is
\* also the top of the history.
OrdemFixa ==
    /\ t_pc[1] = "empilha" => NoNovoEstado
    /\ t_pc[1] = "notifica"
         => /\ NoNovoEstado
            /\ historico = Append(t_local[1].historico0, CmdDaChamada)

\* What the observers found when they were told of the command executed.
Vistos == t_local[1].vistos

\* The observers that answer with desfazer_ultimo() among the first k told.
Reagiram(k) == {j \in 1..k : Vistos[j].obs = "desfazedor"}

C19_Decorador ==
    LET c == CmdDaChamada
        d == c.disp
        os == observadores["n1"]
    IN Interno(d) # d
       => /\ t_pc[1] \in {"avisa", "empilha", "notifica"} => NoNovoEstado
          /\ (entregas # <<>> /\ t_pc[1] # "fim") => NoNovoEstado
          /\ \A k \in 1..Len(Vistos) : Reagiram(k - 1) = {} => Vistos[k].novo
          /\ t_pc[1] = "executa" => entregas = <<>>
          /\ t_pc[1] \in {"empilha", "notifica"}
               => entregas = ACadaUm(os, EventoRemoto(d, Valor(c)))
          /\ (t_pc[1] = "fim" /\ ~Reage)
               => /\ entregas = ACadaUm(os, EventoRemoto(d, Valor(c)))
                                   \o ACadaUm(os, "Comando executado: " \o c.classe)
                  /\ \A k \in 1..Len(os) :
                        RecebidosPor(os[k]) = <<EventoRemoto(d, Valor(c)),
                                                "Comando executado: " \o c.classe>>

\* C19 witness: executar_comando(LigarCommand(monitorada)) has returned with
\* app and painel listening: the inner lamp is on and each received the
\* decorator's event and then the controller's.
C19_Witness ==
    /\ t_pc[1] = "fim"
    /\ CmdDaChamada = [classe |-> "LigarCommand", disp |-> "monitorada"]
    /\ ultima_op.antes = "Luz Hue: Desligada"
    /\ observadores["n1"] = <<"app", "painel">>
    /\ ligado["hue"]
    /\ entregas = <<<<"app", "PhilipsHueAdapter ligado remotamente">>,
                    <<"painel", "PhilipsHueAdapter ligado remotamente">>,
                    <<"app", "Comando executado: LigarCommand">>,
                    <<"painel", "Comando executado: LigarCommand">>>>

====
